---- MODULE Spec2Model ----
(***************************************************************************)
(* homebridge-switch-bot: the per-accessory synchronisation logic of the   *)
(* Humidifier (src/src/devices/humidifiers.ts), the Bot (both versions in  *)
(* src/unnamed/part_000), the HubMini (src/src/Hubs/HubMini.ts) and the TV *)
(* (src/src/irDevices/TV.ts).                                              *)
(*                                                                         *)
(* Time is abstracted: an interval tick, the expiry of the debounce timer  *)
(* and the completion of an HTTP request are actions that may happen in    *)
(* any order.  JavaScript runs every handler to its first await without    *)
(* interruption, so the synchronous part of a handler is one action.       *)
(***************************************************************************)
EXTENDS Integers, Sequences, FiniteSets, TLC

\* ---------------------------------------------------------------- bounds
\* getStatus requests that may be outstanding at once
MaxGets == 2
\* postCommand requests that may be outstanding at once
MaxPosts == 2
\* intents counted in one debounce burst (the counter saturates here)
MaxBurst == 2

\* ------------------------------------------------------ program constants
\* JavaScript's undefined, and the error object apiError(e) hands to the sink
Undef == -1
ApiErr == -2
\* Characteristic.Active
Active_INACTIVE == 0
Active_ACTIVE == 1
\* Characteristic.TargetHumidifierDehumidifierState
Target_HUMIDIFIER_OR_DEHUMIDIFIER == 0
Target_HUMIDIFIER == 1
\* maxValue of Characteristic.RelativeHumidityHumidifierThreshold (minValue 0)
Threshold_maxValue == 100
\* Characteristic.CurrentHumidifierDehumidifierState
Current_INACTIVE == 0
Current_IDLE == 1
Current_HUMIDIFYING == 2

VARIABLES
  device,                      \* the type of the accessory the platform registered
  hide_temperature,            \* config.options.humidifier.hide_temperature
  fields,                      \* the Humidifier's characteristic fields
  sink,                        \* what the HomeKit service holds per characteristic
  humidifierUpdateInProgress,
  skipping,                    \* skipWhile has not yet let a tick through
  pollLoop,                    \* the interval subscription is open
  debounceTimers,              \* pending timers of debounceTime
  getsInFlight,                \* outstanding axios.get(.../status)
  postsInFlight,               \* outstanding axios.post(.../commands)
  lastOp,                      \* the handler that ran last: the body parseStatus
                               \* parsed (for a successful poll), its argument (for
                               \* the debounce subscriber, the number of intents
                               \* it coalesced undisturbed) and the payload it
                               \* handed to axios.post (for the completion of a
                               \* post, the payload of that post where the step
                               \* before issued it and no other is outstanding)
  burst,                       \* the intents since the debounce timer last fired
  pollFailed,                  \* some poll has failed
  bot,                         \* the Bot accessory
  hub,                         \* the HubMini accessory
  tv                           \* the TV accessory

humVars == <<hide_temperature, fields, sink, humidifierUpdateInProgress, skipping,
             debounceTimers, getsInFlight, postsInFlight, burst>>

vars == <<device, humVars, pollLoop, lastOp, pollFailed, bot, hub, tv>>

\* ------------------------------------------------------------ JavaScript
Digit(n) == <<"0", "1", "2", "3", "4", "5", "6", "7", "8", "9">>[n + 1]

RECURSIVE NatToString(_)
NatToString(n) == IF n < 10 THEN Digit(n) ELSE NatToString(n \div 10) \o Digit(n % 10)

\* `${value}` of a template literal
TemplateString(value) == IF value = Undef THEN "undefined" ELSE NatToString(value)

\* a > b: false when either side is undefined (NaN)
JsGreater(a, b) == a # Undef /\ b # Undef /\ a > b

Min(a, b) == IF a < b THEN a ELSE b

\* ------------------------------------------------------- Humidifier: data
FieldNames == {"CurrentRelativeHumidity", "WaterLevel", "Active",
               "TargetHumidifierDehumidifierState", "CurrentHumidifierDehumidifierState",
               "RelativeHumidityHumidifierThreshold", "CurrentTemperature"}

\* the placeholders of the constructor
InitFields == [CurrentRelativeHumidity |-> 0,
               WaterLevel |-> 0,
               Active |-> Active_ACTIVE,
               TargetHumidifierDehumidifierState |-> Target_HUMIDIFIER,
               CurrentHumidifierDehumidifierState |-> Current_INACTIVE,
               RelativeHumidityHumidifierThreshold |-> 0,
               CurrentTemperature |-> 0]

\* deviceStatus.body of a status response
Body(h, p, a, n, t) == [humidity |-> h, power |-> p, auto |-> a,
                        nebulizationEfficiency |-> n, temperature |-> t]

\* the status bodies the cloud answers with in the running specifications
PollBodies == {Body(40, "on", "false", 55, 20),
               Body(30, "off", "true", 55, 20),
               Body(Undef, "undefined", "undefined", 101, Undef)}

\* the status bodies of the parser specification: every combination of a
\* humidity below, equal to or above the threshold (and above its range) or
\* missing, power on or off, auto or not, a nebulizationEfficiency within or
\* above the threshold's range or missing; and the body with every field
\* missing
ParserBodies ==
  {Body(h, p, a, n, 20) : h \in {Undef, 30, 55, 101}, p \in {"on", "off"},
                          a \in {"true", "false"}, n \in {Undef, 55, 101}}
  \cup {Body(Undef, "undefined", "undefined", Undef, Undef)}

\* the body field of a response that has none
NoBody == Body(0, "off", "false", 0, 0)

\* what axios.get ends with: a rejection, or a response with a message and
\* possibly a body
ResponsesOf(bodies) ==
  {[throws |-> TRUE, message |-> "none", hasBody |-> FALSE, body |-> NoBody]}
  \cup {[throws |-> FALSE, message |-> m, hasBody |-> FALSE, body |-> NoBody] :
          m \in {"success", "error"}}
  \cup {[throws |-> FALSE, message |-> m, hasBody |-> TRUE, body |-> b] :
          m \in {"success", "error"}, b \in bodies}

Responses == ResponsesOf(PollBodies)

\* the values HomeKit sends to the set handlers
ActiveValues == {Active_INACTIVE, Active_ACTIVE}
TargetValues == {Target_HUMIDIFIER_OR_DEHUMIDIFIER, Target_HUMIDIFIER}
ThresholdValues == {30, 55}

NoCommand == [commandType |-> "none", command |-> "none", parameter |-> "none"]
NoTarget == <<Undef, Undef, Undef>>
NoBurst == [n |-> 0, clean |-> TRUE, target |-> NoTarget]

Op(name, arg) == [op |-> name, arg |-> arg, payload |-> NoCommand, body |-> NoBody]

\* ------------------------------------------------- Humidifier: operations
\* parseStatus, on a response that has a body
parseStatus_humidityOnly(f, body, hide) ==
  [f EXCEPT !.CurrentRelativeHumidity = body.humidity, !.WaterLevel = 100]

parseStatus_noClamp(f, body, hide) ==
  LET crh == body.humidity
      active == IF body.power = "on" THEN Active_ACTIVE ELSE Active_INACTIVE
      auto == body.auto = "true"
      thr == IF auto THEN crh ELSE body.nebulizationEfficiency
      cur == IF auto THEN Current_HUMIDIFYING
             ELSE IF JsGreater(crh, thr) THEN Current_IDLE
             ELSE IF active = Active_INACTIVE THEN Current_INACTIVE
             ELSE Current_HUMIDIFYING
  IN [CurrentRelativeHumidity |-> crh,
      WaterLevel |-> 100,
      Active |-> active,
      TargetHumidifierDehumidifierState |->
        IF auto THEN Target_HUMIDIFIER_OR_DEHUMIDIFIER ELSE Target_HUMIDIFIER,
      CurrentHumidifierDehumidifierState |-> cur,
      RelativeHumidityHumidifierThreshold |-> thr,
      CurrentTemperature |-> IF hide THEN f.CurrentTemperature ELSE body.temperature]

parseStatus_powerFirst(f, body, hide) ==
  LET crh == body.humidity
      active == IF body.power = "on" THEN Active_ACTIVE ELSE Active_INACTIVE
      auto == body.auto = "true"
      neb == body.nebulizationEfficiency
      thr == IF auto THEN crh
             ELSE IF JsGreater(neb, Threshold_maxValue) THEN Threshold_maxValue ELSE neb
      cur == IF auto THEN Current_HUMIDIFYING
             ELSE IF active = Active_INACTIVE THEN Current_INACTIVE
             ELSE IF JsGreater(crh, thr) THEN Current_IDLE
             ELSE Current_HUMIDIFYING
  IN [CurrentRelativeHumidity |-> crh,
      WaterLevel |-> 100,
      Active |-> active,
      TargetHumidifierDehumidifierState |->
        IF auto THEN Target_HUMIDIFIER_OR_DEHUMIDIFIER ELSE Target_HUMIDIFIER,
      CurrentHumidifierDehumidifierState |-> cur,
      RelativeHumidityHumidifierThreshold |-> thr,
      CurrentTemperature |-> IF hide THEN f.CurrentTemperature ELSE body.temperature]

parseStatus(f, body, hide) ==
  LET crh == body.humidity
      active == IF body.power = "on" THEN Active_ACTIVE ELSE Active_INACTIVE
      auto == body.auto = "true"
      thr == IF auto THEN crh
             ELSE IF JsGreater(body.nebulizationEfficiency, 100) THEN 100
             ELSE body.nebulizationEfficiency
      cur == IF auto THEN Current_HUMIDIFYING
             ELSE IF JsGreater(crh, thr) THEN Current_IDLE
             ELSE IF active = Active_INACTIVE THEN Current_INACTIVE
             ELSE Current_HUMIDIFYING
  IN [CurrentRelativeHumidity |-> crh,
      WaterLevel |-> 100,
      Active |-> active,
      TargetHumidifierDehumidifierState |->
        IF auto THEN Target_HUMIDIFIER_OR_DEHUMIDIFIER ELSE Target_HUMIDIFIER,
      CurrentHumidifierDehumidifierState |-> cur,
      RelativeHumidityHumidifierThreshold |-> thr,
      CurrentTemperature |-> IF hide THEN f.CurrentTemperature ELSE body.temperature]

\* updateHomeKitCharacteristics: every defined field goes to the sink
updateHomeKitCharacteristics(s, f, hide) ==
  [name \in FieldNames |->
     IF name = "CurrentTemperature" /\ hide THEN s[name]
     ELSE IF f[name] # Undef THEN f[name]
     ELSE s[name]]

apiErrorSilent(s, hide) == s

apiError(s, hide) ==
  [name \in FieldNames |->
     IF name = "CurrentTemperature" /\ hide THEN s[name] ELSE ApiErr]

\* how a poll ends: "throw" (axios.get rejects), "nonSuccess" (message is not
\* 'success'), "parseThrow" (no body: parseStatus throws on its first line),
\* "success"
PollOutcome(resp) ==
  IF resp.throws THEN "throw"
  ELSE IF resp.message # "success" THEN "nonSuccess"
  ELSE IF ~resp.hasBody THEN "parseThrow"
  ELSE "success"

\* the fields after refreshStatus has handled the response
refreshStatusNoCheck(f, resp, hide) ==
  IF ~resp.throws /\ resp.hasBody THEN parseStatus(f, resp.body, hide) ELSE f

refreshStatusFields(f, resp, hide) ==
  IF PollOutcome(resp) = "success" THEN parseStatus(f, resp.body, hide) ELSE f

\* the sink after refreshStatus has handled the response
refreshStatusSink(s, f, resp, hide) ==
  CASE PollOutcome(resp) = "success" ->
         updateHomeKitCharacteristics(s, parseStatus(f, resp.body, hide), hide)
    [] PollOutcome(resp) \in {"throw", "parseThrow"} -> apiError(s, hide)
    [] OTHER -> s

\* the catch of refreshStatus swallows the error: the interval subscription
\* stays as it was
refreshStatusRethrow(open) == FALSE

refreshStatusCatch(open) == open

\* pushChanges with pushAutoChanges and pushActiveChanges: the payload posted
pushChanges_modeFirst(f) ==
  IF f.TargetHumidifierDehumidifierState = Target_HUMIDIFIER
  THEN [commandType |-> "command", command |-> "setMode",
        parameter |-> TemplateString(f.RelativeHumidityHumidifierThreshold)]
  ELSE IF f.Active = Active_ACTIVE
  THEN [commandType |-> "command", command |-> "setMode", parameter |-> "auto"]
  ELSE [commandType |-> "command", command |-> "turnOff", parameter |-> "default"]

pushChanges(f) ==
  IF f.TargetHumidifierDehumidifierState = Target_HUMIDIFIER /\ f.Active = Active_ACTIVE
  THEN [commandType |-> "command", command |-> "setMode",
        parameter |-> TemplateString(f.RelativeHumidityHumidifierThreshold)]
  ELSE IF f.TargetHumidifierDehumidifierState = Target_HUMIDIFIER_OR_DEHUMIDIFIER
          /\ f.Active = Active_ACTIVE
  THEN [commandType |-> "command", command |-> "setMode", parameter |-> "auto"]
  ELSE IF f.Active = Active_INACTIVE
  THEN [commandType |-> "command", command |-> "turnOff", parameter |-> "default"]
  ELSE NoCommand

\* the catch blocks of a push: they log and call apiError, and emit nothing on
\* doHumidifierUpdate, so the debounce timers stay as they were
pushCatchRetries(timers) == 1

pushCatch(timers) == timers

\* the last statement of the debounce subscriber, after its try/catch
pushSubscriberKeepsFlag(inProgress) == inProgress

pushSubscriberEnd(inProgress) == FALSE

\* the three fields pushChanges reads
Target(f) == <<f.TargetHumidifierDehumidifierState, f.Active,
               f.RelativeHumidityHumidifierThreshold>>

\* the set handlers: the fields and the sink after the handler
handleTargetHumidifierDehumidifierStateSet_noMirror(f, s, value) ==
  [fields |-> [f EXCEPT !.TargetHumidifierDehumidifierState = value], sink |-> s]

handleTargetHumidifierDehumidifierStateSet(f, s, value) ==
  [fields |-> [f EXCEPT !.TargetHumidifierDehumidifierState = value],
   sink |-> [s EXCEPT !.TargetHumidifierDehumidifierState = value]]

handleActiveSet(f, s, value) ==
  [fields |-> [f EXCEPT !.Active = value],
   sink |-> [s EXCEPT !.Active = value]]

handleRelativeHumidityHumidifierThresholdSet_staysOff(f, s, value) ==
  [fields |-> [f EXCEPT !.RelativeHumidityHumidifierThreshold = value],
   sink |-> [s EXCEPT !.RelativeHumidityHumidifierThreshold = value,
                      !.CurrentHumidifierDehumidifierState =
                         f.CurrentHumidifierDehumidifierState,
                      !.Active = f.Active]]

handleRelativeHumidityHumidifierThresholdSet(f, s, value) ==
  LET wasInactive == f.Active = Active_INACTIVE
      g == [f EXCEPT !.RelativeHumidityHumidifierThreshold = value,
                     !.Active = IF wasInactive THEN Active_ACTIVE ELSE @,
                     !.CurrentHumidifierDehumidifierState =
                        IF wasInactive THEN Current_IDLE ELSE @]
  IN [fields |-> g,
      sink |-> [s EXCEPT !.RelativeHumidityHumidifierThreshold = value,
                         !.CurrentHumidifierDehumidifierState =
                            g.CurrentHumidifierDehumidifierState,
                         !.Active = g.Active]]

\* debounceTime: a new value cancels the pending timer and starts one
debounceNoCancel(timers) == timers + 1

debounceTime(timers) == 1

\* --------------------------------------------------- Humidifier: actions
\* doHumidifierUpdate.next(): tap sets the flag, debounceTime restarts its timer
Emit(after) ==
  /\ fields' = after.fields
  /\ sink' = after.sink
  /\ humidifierUpdateInProgress' = TRUE
  /\ debounceTimers' = debounceTime(debounceTimers)
  /\ burst' = LET clean == burst.clean /\ postsInFlight = 0
               IN [n |-> Min(burst.n + 1, MaxBurst),
                   clean |-> clean,
                   target |-> IF clean THEN Target(after.fields) ELSE NoTarget]
  /\ UNCHANGED <<device, hide_temperature, skipping, pollLoop, getsInFlight,
                 postsInFlight, pollFailed, bot, hub, tv>>

HandleTargetSet ==
  \E value \in TargetValues :
    /\ lastOp' = Op("handleTargetHumidifierDehumidifierStateSet", value)
    /\ Emit(handleTargetHumidifierDehumidifierStateSet(fields, sink, value))

HandleActiveSet ==
  \E value \in ActiveValues :
    /\ lastOp' = Op("handleActiveSet", value)
    /\ Emit(handleActiveSet(fields, sink, value))

HandleThresholdSet ==
  \E value \in ThresholdValues :
    /\ lastOp' = Op("handleRelativeHumidityHumidifierThresholdSet", value)
    /\ Emit(handleRelativeHumidityHumidifierThresholdSet(fields, sink, value))

\* interval(...).pipe(skipWhile(() => inProgress)): whether a tick is dropped.
\* skipWhile drops values only until its predicate is false for the first time
skipWhile(open, skips, inProgress) == ~open \/ (skips /\ inProgress)

\* the refresh period elapses and the tick does not reach the subscriber
TickSkipped ==
  /\ skipWhile(pollLoop.Humidifier, skipping, humidifierUpdateInProgress)
  /\ lastOp' = Op("tick", 0)
  /\ UNCHANGED <<device, humVars, pollLoop, pollFailed, bot, hub, tv>>

\* the refresh period elapses and the tick reaches the subscriber:
\* refreshStatus issues its request
TickRefresh ==
  /\ ~skipWhile(pollLoop.Humidifier, skipping, humidifierUpdateInProgress)
  /\ getsInFlight < MaxGets
  /\ skipping' = FALSE
  /\ getsInFlight' = getsInFlight + 1
  /\ lastOp' = Op("tick", 0)
  /\ UNCHANGED <<device, hide_temperature, fields, sink, humidifierUpdateInProgress,
                 debounceTimers, postsInFlight, burst, pollLoop, pollFailed,
                 bot, hub, tv>>

\* a getStatus request ends and refreshStatus resumes after its await
PollCompleteOf(responses) ==
  \E resp \in responses :
    /\ getsInFlight > 0
    /\ getsInFlight' = getsInFlight - 1
    /\ fields' = refreshStatusFields(fields, resp, hide_temperature)
    /\ sink' = refreshStatusSink(sink, fields, resp, hide_temperature)
    /\ pollLoop' = IF PollOutcome(resp) = "success" THEN pollLoop
                   ELSE [pollLoop EXCEPT !.Humidifier = refreshStatusCatch(@)]
    /\ pollFailed' = (pollFailed \/ PollOutcome(resp) # "success")
    /\ burst' = IF PollOutcome(resp) = "success" /\ burst.n > 0
                THEN [burst EXCEPT !.clean = FALSE, !.target = NoTarget] ELSE burst
    /\ lastOp' = [Op("poll_" \o PollOutcome(resp), 0) EXCEPT
                    !.body = IF PollOutcome(resp) = "success" THEN resp.body ELSE NoBody]
    /\ UNCHANGED <<device, hide_temperature, humidifierUpdateInProgress, skipping,
                   debounceTimers, postsInFlight, bot, hub, tv>>

PollComplete == PollCompleteOf(Responses)

\* the debounce timer expires: the subscriber calls pushChanges, which runs to
\* its axios.post
DebounceFire ==
  /\ debounceTimers > 0
  /\ postsInFlight < MaxPosts
  /\ debounceTimers' = debounceTimers - 1
  /\ LET payload == pushChanges(fields)
     IN IF payload = NoCommand
        THEN /\ humidifierUpdateInProgress' = pushSubscriberEnd(humidifierUpdateInProgress)
             /\ UNCHANGED postsInFlight
        ELSE /\ postsInFlight' = postsInFlight + 1
             /\ UNCHANGED humidifierUpdateInProgress
  /\ burst' = NoBurst
  /\ lastOp' = [Op("debounceFire", IF burst.clean THEN burst.n ELSE 0) EXCEPT
                  !.payload = pushChanges(fields)]
  /\ UNCHANGED <<device, hide_temperature, fields, sink, skipping, pollLoop,
                 getsInFlight, pollFailed, bot, hub, tv>>

\* a postCommand request ends: on a rejection apiError runs (in the catch of
\* the subscriber or of pushAutoChanges / pushActiveChanges); then the
\* subscriber clears the flag
PushComplete ==
  \E ok \in BOOLEAN :
    /\ postsInFlight > 0
    /\ postsInFlight' = postsInFlight - 1
    /\ sink' = IF ok THEN sink ELSE apiError(sink, hide_temperature)
    /\ debounceTimers' = IF ok THEN debounceTimers ELSE pushCatch(debounceTimers)
    /\ humidifierUpdateInProgress' = pushSubscriberEnd(humidifierUpdateInProgress)
    /\ lastOp' = [Op(IF ok THEN "push_success" ELSE "push_failure", 0) EXCEPT
                    !.payload = IF lastOp.op = "debounceFire" /\ postsInFlight = 1
                                THEN lastOp.payload ELSE NoCommand]
    /\ UNCHANGED <<device, hide_temperature, fields, skipping, pollLoop,
                   getsInFlight, burst, pollFailed, bot, hub, tv>>

HumidifierNext ==
  \/ HandleTargetSet
  \/ HandleActiveSet
  \/ HandleThresholdSet
  \/ TickSkipped
  \/ TickRefresh
  \/ PollComplete
  \/ DebounceFire
  \/ PushComplete


\* ------------------------------------------------------------------ Bot
\* the two versions of the Bot accessory
BotVersions == {"inline", "handleOnSet"}
\* the values HomeKit sends to the On set handler
OnValues == {"true", "false"}

\* the value of an On intent as lastOp records it: 1 for true, 0 for false
OnArg(v) == IF v = "true" THEN 1 ELSE 0

Truthy_nonEmpty(v) == v # "undefined"

Truthy(v) == v = "true"

\* after the constructor: the inline version leaves On unassigned, the
\* handleOnSet version sets the placeholder false and reports it to the sink
BotInit(version, inSwitch, inPress) ==
  [version |-> version,
   device_switch |-> inSwitch,       \* options.bot.device_switch includes deviceId
   device_press |-> inPress,         \* options.bot.device_press includes deviceId
   On |-> IF version = "inline" THEN "undefined" ELSE "false",
   sinkOn |-> "false",
   postsInFlight |-> 0,              \* outstanding axios.post(.../commands)
   requested |-> <<>>,               \* the intent's value, for each outstanding post
   callbackDue |-> 0,                \* handlers suspended before their callback(null)
   callbackLost |-> FALSE,           \* a handler ended without calling callback
   mappingError |-> FALSE]           \* pushChanges has thrown 'Bot Device Paramters
                                     \* not set for this Bot.'

\* Bot.pushChanges up to its axios.post: the command chosen, the value it
\* leaves in On, or the error thrown
Bot_pushChanges_noPress(on, inSwitch, inPress) ==
  IF inSwitch /\ Truthy(on) THEN [throws |-> FALSE, command |-> "turnOn", On |-> "true"]
  ELSE IF inSwitch /\ ~Truthy(on) THEN [throws |-> FALSE, command |-> "turnOff", On |-> "false"]
  ELSE [throws |-> TRUE, command |-> "none", On |-> on]

Bot_pushChanges_defaultPress(on, inSwitch, inPress) ==
  IF inSwitch /\ Truthy(on) THEN [throws |-> FALSE, command |-> "turnOn", On |-> "true"]
  ELSE IF inSwitch /\ ~Truthy(on) THEN [throws |-> FALSE, command |-> "turnOff", On |-> "false"]
  ELSE [throws |-> FALSE, command |-> "press", On |-> "false"]

Bot_pushChanges_pressFirst(on, inSwitch, inPress) ==
  IF inPress THEN [throws |-> FALSE, command |-> "press", On |-> "false"]
  ELSE IF inSwitch /\ Truthy(on) THEN [throws |-> FALSE, command |-> "turnOn", On |-> "true"]
  ELSE IF inSwitch /\ ~Truthy(on) THEN [throws |-> FALSE, command |-> "turnOff", On |-> "false"]
  ELSE [throws |-> TRUE, command |-> "none", On |-> on]

Bot_pushChanges(on, inSwitch, inPress) ==
  IF inSwitch /\ Truthy(on) THEN [throws |-> FALSE, command |-> "turnOn", On |-> "true"]
  ELSE IF inSwitch /\ ~Truthy(on) THEN [throws |-> FALSE, command |-> "turnOff", On |-> "false"]
  ELSE IF inPress THEN [throws |-> FALSE, command |-> "press", On |-> "false"]
  ELSE [throws |-> TRUE, command |-> "none", On |-> on]

BotPayload(r) ==
  IF r.throws THEN NoCommand
  ELSE [commandType |-> "command", command |-> r.command, parameter |-> "default"]

BotFrame == UNCHANGED <<device, humVars, pollLoop, pollFailed, hub, tv>>

\* the SET handler registered inline in the constructor: pushChanges() is not
\* awaited and runs before On is assigned
BotInlineSet ==
  \E value \in OnValues :
    LET r == Bot_pushChanges(bot.On, bot.device_switch, bot.device_press)
    IN /\ bot.version = "inline"
       /\ r.throws \/ bot.postsInFlight < MaxPosts
       /\ bot' = [bot EXCEPT !.postsInFlight = IF r.throws THEN @ ELSE @ + 1,
                             !.requested = IF r.throws THEN @
                                           ELSE Append(@, OnArg(value)),
                             !.mappingError = @ \/ r.throws,
                             !.On = value,
                             !.sinkOn = value]
       /\ lastOp' = [Op("bot_set", OnArg(value)) EXCEPT !.payload = BotPayload(r)]
       /\ BotFrame

\* handleOnSet up to its await: On is assigned, pushChanges runs to its
\* axios.post, or throws and ends the handler
BotHandleOnSet ==
  \E value \in OnValues :
    LET r == Bot_pushChanges(value, bot.device_switch, bot.device_press)
    IN /\ bot.version = "handleOnSet"
       /\ r.throws \/ bot.postsInFlight < MaxPosts
       /\ bot' = IF r.throws
                 THEN [bot EXCEPT !.On = value, !.callbackLost = TRUE,
                                  !.mappingError = TRUE]
                 ELSE [bot EXCEPT !.On = r.On,
                                  !.postsInFlight = @ + 1,
                                  !.requested = Append(@, OnArg(value)),
                                  !.callbackDue = @ + 1]
       /\ lastOp' = [Op("bot_set", OnArg(value)) EXCEPT !.payload = BotPayload(r)]
       /\ BotFrame

\* the sequence without its i-th element
RemoveAt(seq, i) == SubSeq(seq, 1, i - 1) \o SubSeq(seq, i + 1, Len(seq))

\* one of the outstanding postCommand requests ends, in any order.  In the
\* handleOnSet version the handler that issued it resumes: it reports On and
\* calls callback(null), or ends on the rejection
BotPushComplete ==
  \E ok \in BOOLEAN, i \in 1..Len(bot.requested) :
    /\ bot.postsInFlight > 0
    /\ bot' = IF bot.version = "inline"
              THEN [bot EXCEPT !.postsInFlight = @ - 1,
                               !.requested = RemoveAt(@, i)]
              ELSE IF ok
              THEN [bot EXCEPT !.postsInFlight = @ - 1,
                               !.requested = RemoveAt(@, i),
                               !.callbackDue = @ - 1,
                               !.sinkOn = bot.On]
              ELSE [bot EXCEPT !.postsInFlight = @ - 1,
                               !.requested = RemoveAt(@, i),
                               !.callbackDue = @ - 1,
                               !.callbackLost = TRUE]
    /\ lastOp' = Op(IF ok THEN "bot_push_success" ELSE "bot_push_failure",
                    bot.requested[i])
    /\ BotFrame

BotNext ==
  \/ BotInlineSet
  \/ BotHandleOnSet
  \/ BotPushComplete

\* --------------------------------------------------------------- HubMini
HubInit ==
  [Reachable |-> TRUE, LinkQuality |-> 4, Category |-> 16,
   AccessoryIdentifier |-> "deviceName",
   sink |-> [Reachable |-> TRUE, LinkQuality |-> 4, Category |-> 16,
             AccessoryIdentifier |-> "deviceName"],
   hubUpdateInProgress |-> FALSE,
   skipping |-> TRUE,                \* skipWhile has not yet let a tick through
   getsInFlight |-> 1]               \* outstanding axios.get(.../status)

\* what axios.get ends with for the hub
HubResponses ==
  {[throws |-> TRUE, message |-> "none", statusCode |-> 0]}
  \cup {[throws |-> FALSE, message |-> m, statusCode |-> c] :
          m \in {"success", "error"}, c \in {100, 190}}

Hub_PollOutcome(resp) ==
  IF resp.throws THEN "throw"
  ELSE IF resp.message # "success" THEN "nonSuccess"
  ELSE "success"

Hub_parseStatus(h, resp) ==
  IF resp.statusCode = 100 /\ resp.message = "success"
  THEN [h EXCEPT !.Reachable = TRUE, !.LinkQuality = 4, !.Category = 16,
                 !.AccessoryIdentifier = "deviceName"]
  ELSE [h EXCEPT !.Reachable = FALSE, !.LinkQuality = 1, !.Category = 1,
                 !.AccessoryIdentifier = "deviceName"]

Hub_updateHomeKitCharacteristics(h) ==
  [h EXCEPT !.sink = [Reachable |-> h.Reachable, LinkQuality |-> h.LinkQuality,
                      Category |-> h.Category,
                      AccessoryIdentifier |-> h.AccessoryIdentifier]]

Hub_refreshStatus_parsesAnyAnswer(h, resp) ==
  IF resp.throws THEN h
  ELSE Hub_updateHomeKitCharacteristics(Hub_parseStatus(h, resp))

Hub_refreshStatus(h, resp) ==
  IF Hub_PollOutcome(resp) = "success"
  THEN Hub_updateHomeKitCharacteristics(Hub_parseStatus(h, resp))
  ELSE h

\* a HubMini handler touches the fields of its own instance only
HubFrame_sharedFlag ==
  /\ humidifierUpdateInProgress' = hub'.hubUpdateInProgress
  /\ UNCHANGED <<device, hide_temperature, fields, sink, skipping, debounceTimers,
                 getsInFlight, postsInFlight, burst, bot, tv>>

HubFrame == UNCHANGED <<device, humVars, bot, tv>>

\* the refresh period elapses
HubTick ==
  /\ IF skipWhile(pollLoop.HubMini, hub.skipping, hub.hubUpdateInProgress)
     THEN UNCHANGED hub
     ELSE /\ hub.getsInFlight < MaxGets
          /\ hub' = [hub EXCEPT !.skipping = FALSE, !.getsInFlight = @ + 1]
  /\ lastOp' = Op("hub_tick", 0)
  /\ UNCHANGED <<pollLoop, pollFailed>>
  /\ HubFrame

\* a getStatus request ends and refreshStatus resumes after its await
HubPollComplete ==
  \E resp \in HubResponses :
    /\ hub.getsInFlight > 0
    /\ hub' = [Hub_refreshStatus(hub, resp) EXCEPT !.getsInFlight = @ - 1]
    /\ pollLoop' = IF Hub_PollOutcome(resp) = "success" THEN pollLoop
                   ELSE [pollLoop EXCEPT !.HubMini = refreshStatusCatch(@)]
    /\ pollFailed' = (pollFailed \/ Hub_PollOutcome(resp) # "success")
    /\ lastOp' = Op("hub_poll_" \o Hub_PollOutcome(resp), resp.statusCode)
    /\ HubFrame

HubNext ==
  \/ HubTick
  \/ HubPollComplete

\* -------------------------------------------------------------------- TV
TVInit ==
  [Active |-> Undef,
   tvUpdateInProgress |-> FALSE,
   skipping |-> TRUE,                \* skipWhile has not yet let a tick through
   getsInFlight |-> 1,               \* outstanding axios.get(.../status)
   postsInFlight |-> 0]              \* outstanding axios.post(.../commands)

\* what axios.get ends with for the TV
TVResponses ==
  {[throws |-> TRUE, message |-> "none"]}
  \cup {[throws |-> FALSE, message |-> m] : m \in {"success", "error"}}

\* parseStatus and updateHomeKitCharacteristics of the TV are empty
TV_refreshStatus(t, resp) == t

TVFrame == UNCHANGED <<device, humVars, bot, hub>>

\* the refresh period elapses
TVTick ==
  /\ IF skipWhile(pollLoop.TV, tv.skipping, tv.tvUpdateInProgress)
     THEN UNCHANGED tv
     ELSE /\ tv.getsInFlight < MaxGets
          /\ tv' = [tv EXCEPT !.skipping = FALSE, !.getsInFlight = @ + 1]
  /\ lastOp' = Op("tv_tick", 0)
  /\ UNCHANGED <<pollLoop, pollFailed>>
  /\ TVFrame

\* a getStatus request ends and refreshStatus resumes after its await
TVPollComplete ==
  \E resp \in TVResponses :
    /\ tv.getsInFlight > 0
    /\ tv' = [TV_refreshStatus(tv, resp) EXCEPT !.getsInFlight = @ - 1]
    /\ pollLoop' = IF Hub_PollOutcome(resp) = "success" THEN pollLoop
                   ELSE [pollLoop EXCEPT !.TV = refreshStatusCatch(@)]
    /\ pollFailed' = (pollFailed \/ Hub_PollOutcome(resp) # "success")
    /\ lastOp' = Op("tv_poll_" \o Hub_PollOutcome(resp), 0)
    /\ TVFrame

TVHandleSet_emits ==
  /\ lastOp' = Op("tv_set", 0)
  /\ tv' = [tv EXCEPT !.tvUpdateInProgress = TRUE]
  /\ UNCHANGED <<pollLoop, pollFailed>>
  /\ TVFrame

\* the SET handlers of Active, ActiveIdentifier, RemoteKey and VolumeSelector:
\* they log and call callback(null)
TVHandleSet ==
  /\ lastOp' = Op("tv_set", 0)
  /\ UNCHANGED <<tv, pollLoop, pollFailed>>
  /\ TVFrame

TVNext ==
  \/ TVTick
  \/ TVPollComplete
  \/ TVHandleSet

\* ------------------------------------------------------- specifications
\* The Humidifier after its constructor: the placeholders are in the fields
\* and in the sink, and the constructor's own refreshStatus() has issued its
\* request.
HumidifierInit(hides) ==
  /\ hide_temperature \in hides
  /\ fields = InitFields
  /\ sink = [name \in FieldNames |->
               IF name = "CurrentTemperature" /\ hide_temperature THEN Undef
               ELSE InitFields[name]]
  /\ humidifierUpdateInProgress = FALSE
  /\ skipping = TRUE
  /\ debounceTimers = 0
  /\ getsInFlight = 1
  /\ postsInFlight = 0
  /\ burst = NoBurst

SharedInit ==
  /\ pollLoop = [Humidifier |-> TRUE, HubMini |-> TRUE, TV |-> TRUE]
  /\ pollFailed = FALSE
  /\ lastOp = Op("constructor", 0)

\* One accessory is registered; the variables of the other accessory types
\* keep their initial values.

\* a Humidifier
Init ==
  /\ device = "Humidifier"
  /\ HumidifierInit(BOOLEAN)
  /\ bot = BotInit("handleOnSet", FALSE, FALSE)
  /\ hub = HubInit
  /\ tv = TVInit
  /\ SharedInit

Next == HumidifierNext

Spec == Init /\ [][Next]_vars

\* The write path of the Humidifier within one refresh period: the set
\* handlers, the debounce subscriber and the completion of the requests issued,
\* the constructor's getStatus among them; no interval tick occurs.  A pending
\* debounce timer expires (setTimeout), and axios settles every request it has
\* issued (it rejects on the configured timeout at the latest).
NextWrite ==
  \/ HandleTargetSet
  \/ HandleActiveSet
  \/ HandleThresholdSet
  \/ PollComplete
  \/ DebounceFire
  \/ PushComplete

SpecWrite ==
  /\ Init
  /\ [][NextWrite]_vars
  /\ WF_vars(DebounceFire)
  /\ WF_vars(PushComplete)
  /\ WF_vars(PollComplete)

\* The command mapper of the Humidifier on every target HomeKit can set: after
\* construction a threshold intent, a target-state intent and an Active intent
\* have arrived within one debounce window (the constructor's getStatus is
\* still unanswered); then the timer fires and the request ends.
InitMapper ==
  /\ device = "Humidifier"
  /\ hide_temperature = FALSE
  /\ \E t \in 0..Threshold_maxValue, m \in TargetValues, a \in ActiveValues :
       LET s1 == handleRelativeHumidityHumidifierThresholdSet(InitFields, InitFields, t)
           s2 == handleTargetHumidifierDehumidifierStateSet(s1.fields, s1.sink, m)
           s3 == handleActiveSet(s2.fields, s2.sink, a)
       IN /\ fields = s3.fields
          /\ sink = s3.sink
          /\ burst = [n |-> Min(3, MaxBurst), clean |-> TRUE, target |-> Target(s3.fields)]
          /\ lastOp = Op("handleActiveSet", a)
  /\ humidifierUpdateInProgress = TRUE
  /\ skipping = TRUE
  /\ debounceTimers = 1
  /\ getsInFlight = 1
  /\ postsInFlight = 0
  /\ pollLoop = [Humidifier |-> TRUE, HubMini |-> TRUE, TV |-> TRUE]
  /\ pollFailed = FALSE
  /\ bot = BotInit("handleOnSet", FALSE, FALSE)
  /\ hub = HubInit
  /\ tv = TVInit

NextMapper ==
  \/ DebounceFire
  \/ PushComplete

SpecMapper == InitMapper /\ [][NextMapper]_vars

\* The status parser of the Humidifier on every body of ParserBodies: the read
\* path and the threshold set handler (which writes three fields), before any
\* debounce timer fires.  The fields a poll finds are the placeholders, what
\* the set handler wrote, or what an earlier poll parsed.
ParserResponses ==
  {resp \in ResponsesOf(ParserBodies) : resp.hasBody => resp.message = "success"}

ParserPoll == PollCompleteOf(ParserResponses)

NextParser ==
  \/ HandleThresholdSet
  \/ TickSkipped
  \/ TickRefresh
  \/ ParserPoll

SpecParser == Init /\ [][NextParser]_vars

\* Two accessories registered by the platform, a Humidifier and a HubMini,
\* each with its own interval and its own requests; HomeKit sends the
\* Humidifier Active intents only.
InitTwo ==
  /\ device = "Humidifier+HubMini"
  /\ HumidifierInit({FALSE})
  /\ bot = BotInit("handleOnSet", FALSE, FALSE)
  /\ hub = HubInit
  /\ tv = TVInit
  /\ SharedInit

NextTwo ==
  \/ HandleActiveSet
  \/ TickSkipped
  \/ TickRefresh
  \/ PollComplete
  \/ DebounceFire
  \/ PushComplete
  \/ HubTick
  \/ HubPollComplete

SpecTwo == InitTwo /\ [][NextTwo]_vars

\* a HubMini and a TV registered by the platform
InitHubTV ==
  /\ device = "HubMini+TV"
  /\ HumidifierInit({FALSE})
  /\ bot = BotInit("handleOnSet", FALSE, FALSE)
  /\ hub = HubInit
  /\ tv = TVInit
  /\ SharedInit

NextHubTV ==
  \/ HubNext
  \/ TVNext

SpecHubTV == InitHubTV /\ [][NextHubTV]_vars

\* a Bot of either version, with its device id in any of the configured sets
InitBot ==
  /\ device = "Bot"
  /\ HumidifierInit({FALSE})
  /\ bot \in {BotInit(v, s, p) : v \in BotVersions, s \in BOOLEAN, p \in BOOLEAN}
  /\ hub = HubInit
  /\ tv = TVInit
  /\ SharedInit

SpecBot == InitBot /\ [][BotNext]_vars

\* an accessory of one of the three polling types
InitPoll ==
  /\ device \in {"Humidifier", "HubMini", "TV"}
  /\ HumidifierInit(IF device = "Humidifier" THEN BOOLEAN ELSE {FALSE})
  /\ bot = BotInit("handleOnSet", FALSE, FALSE)
  /\ hub = HubInit
  /\ tv = TVInit
  /\ SharedInit

NextPoll ==
  \/ device = "Humidifier" /\ HumidifierNext
  \/ device = "HubMini" /\ HubNext
  \/ device = "TV" /\ TVNext

SpecPoll == InitPoll /\ [][NextPoll]_vars

\* --------------------------------------------------------------- claims
IntentOps == {"handleTargetHumidifierDehumidifierStateSet", "handleActiveSet",
              "handleRelativeHumidityHumidifierThresholdSet"}

FailedPollOps == {"poll_throw", "poll_nonSuccess", "poll_parseThrow"}

\* the fields apiError reports to the sink
ReportedFields == FieldNames \ (IF hide_temperature THEN {"CurrentTemperature"} ELSE {})

\* the fields record that holds a target (mode, active, threshold)
WithTarget(target) ==
  [InitFields EXCEPT !.TargetHumidifierDehumidifierState = target[1],
                     !.Active = target[2],
                     !.RelativeHumidityHumidifierThreshold = target[3]]

\* C1: in every reachable state of the Humidifier at most one postCommand
\* request is outstanding.
C1_AtMostOnePost == postsInFlight <= 1

\* C2: every interval tick that fires while humidifierUpdateInProgress is
\* true issues no getStatus request and leaves every characteristic field
\* unchanged.
C2_TickSkippedWhileInProgress ==
  [][(lastOp'.op = "tick" /\ humidifierUpdateInProgress)
       => (getsInFlight' = getsInFlight /\ fields' = fields)]_vars

\* C3: a getStatus request and a postCommand request of the Humidifier are
\* never outstanding at the same time.
C3_NoGetDuringPost == ~(getsInFlight > 0 /\ postsInFlight > 0)

\* C4: at most one debounce timer is ever pending, and when the timer fires
\* after N >= 1 intents that arrived with no push in flight and with no poll
\* response applied since the first of them, exactly one postCommand is
\* issued, no timer stays pending, and its payload is the one the command
\* mapper gives for the target fields as the N-th intent left them.
C4_BurstOnePush ==
  [][/\ debounceTimers' <= 1
     /\ (lastOp'.op = "debounceFire" /\ burst.n >= 1 /\ burst.clean)
          => /\ postsInFlight' = postsInFlight + 1
             /\ debounceTimers' = 0
             /\ lastOp'.payload = pushChanges(WithTarget(burst.target))]_vars

\* a burst of at least two intents, the last one a threshold of 55 in manual
\* mode, was coalesced into the single outstanding postCommand
C4_Witness ==
  /\ lastOp.op = "debounceFire"
  /\ lastOp.arg >= 2
  /\ lastOp.payload = [commandType |-> "command", command |-> "setMode", parameter |-> "55"]
  /\ postsInFlight = 1
  /\ debounceTimers = 0

\* C5: the three fields the command mapper reads are changed only by the
\* intent handlers, never by a poll completion.
C5_TargetOnlyByIntents ==
  [][Target(fields') # Target(fields) => lastOp'.op \in IntentOps]_vars

\* C6: each intent handler writes the requested value to its target field,
\* hands the same value to the sink, and emits on the debounce subject (the
\* flag is set and one timer is pending); it issues no getStatus and no
\* postCommand request itself, so the sink is updated before any postCommand
\* the intent causes.
C6_IntentMirrorsAndEmits ==
  [][/\ lastOp'.op = "handleTargetHumidifierDehumidifierStateSet"
          => /\ fields'.TargetHumidifierDehumidifierState = lastOp'.arg
             /\ sink'.TargetHumidifierDehumidifierState = lastOp'.arg
     /\ lastOp'.op = "handleActiveSet"
          => /\ fields'.Active = lastOp'.arg
             /\ sink'.Active = lastOp'.arg
     /\ lastOp'.op = "handleRelativeHumidityHumidifierThresholdSet"
          => /\ fields'.RelativeHumidityHumidifierThreshold = lastOp'.arg
             /\ sink'.RelativeHumidityHumidifierThreshold = lastOp'.arg
     /\ lastOp'.op \in IntentOps
          => /\ humidifierUpdateInProgress'
             /\ debounceTimers' = 1
             /\ getsInFlight' = getsInFlight
             /\ postsInFlight' = postsInFlight]_vars

\* a target-state intent has just run while the sink held error values: the
\* sink shows the requested mode and no postCommand has been issued yet
C6_Witness ==
  /\ lastOp.op = "handleTargetHumidifierDehumidifierStateSet"
  /\ lastOp.arg = Target_HUMIDIFIER_OR_DEHUMIDIFIER
  /\ sink.TargetHumidifierDehumidifierState = Target_HUMIDIFIER_OR_DEHUMIDIFIER
  /\ sink.Active = ApiErr
  /\ debounceTimers = 1
  /\ postsInFlight = 0

\* C7: the Bot's On handler has invoked the host's callback by the time it
\* gives up control: no handler is suspended before its callback while its
\* postCommand request is outstanding.
C7_CallbackNotDelayed == bot.postsInFlight > 0 => bot.callbackDue = 0

\* C8: a poll that fails (the request throws, the message is not 'success',
\* or parseStatus throws) leaves every parsed field as it was.
C8_FailedPollKeepsFields ==
  [][lastOp'.op \in FailedPollOps => fields' = fields]_vars

\* a poll with a non-success message has ended and the fields still hold the
\* values an earlier successful poll parsed
C8_Witness ==
  /\ lastOp.op = "poll_nonSuccess"
  /\ fields.CurrentRelativeHumidity = 40
  /\ fields.RelativeHumidityHumidifierThreshold = 55
  /\ fields.WaterLevel = 100

\* C9: every failed poll, whether the request throws or the response carries
\* a non-success message, hands an error value to the sink for the
\* characteristic fields.
C9_FailedPollReportsError ==
  [][lastOp'.op \in {"poll_throw", "poll_nonSuccess"}
       => \A name \in ReportedFields : sink'[name] = ApiErr]_vars

\* C10: for the Humidifier, the HubMini and the TV, whatever polls have
\* failed before, an interval tick that occurs with no update in progress
\* issues a new getStatus request.
C10_TickIssuesGet ==
  [][/\ (lastOp'.op = "tick" /\ ~humidifierUpdateInProgress)
          => getsInFlight' = getsInFlight + 1
     /\ (lastOp'.op = "hub_tick" /\ ~hub.hubUpdateInProgress)
          => hub'.getsInFlight = hub.getsInFlight + 1
     /\ (lastOp'.op = "tv_tick" /\ ~tv.tvUpdateInProgress)
          => tv'.getsInFlight = tv.getsInFlight + 1]_vars

\* after a failed poll and a completed push, a tick of the Humidifier has
\* issued the only outstanding getStatus request
C10_Witness ==
  /\ device = "Humidifier"
  /\ pollFailed
  /\ ~skipping
  /\ lastOp.op = "tick"
  /\ ~humidifierUpdateInProgress
  /\ getsInFlight = 1
  /\ sink.Active = ApiErr

\* C11: every completion of a push attempt, successful or failed, leaves
\* humidifierUpdateInProgress false; and when timers fire and requests end,
\* either intents keep arriving for ever or from some point on the flag
\* stays false.
C11_FlagClearedAfterPush ==
  /\ [][lastOp'.op \in {"push_success", "push_failure"}
          => ~humidifierUpdateInProgress']_vars
  /\ ([]<><<lastOp'.op \in IntentOps>>_vars) \/ <>[](~humidifierUpdateInProgress)

\* a failed push has ended while a later intent's timer is pending: the flag
\* is false
C11_Witness ==
  /\ lastOp.op = "push_failure"
  /\ ~humidifierUpdateInProgress
  /\ postsInFlight = 0
  /\ debounceTimers = 1

\* C12: when the postCommand of a push attempt is rejected, whichever of the
\* three commands it carried, apiError hands the error to the sink for every
\* characteristic it reports.
C12_FailedPushReportsError ==
  [][lastOp'.op = "push_failure"
       => \A name \in ReportedFields : sink'[name] = ApiErr]_vars

\* the post of pushAutoChanges was rejected while the sink still showed the
\* mode the intent had set: pushAutoChanges' own catch has replaced it with
\* the error
C12_Witness ==
  /\ lastOp.op = "push_failure"
  /\ lastOp.payload = [commandType |-> "command", command |-> "setMode", parameter |-> "auto"]
  /\ fields.TargetHumidifierDehumidifierState = Target_HUMIDIFIER_OR_DEHUMIDIFIER
  /\ sink.TargetHumidifierDehumidifierState = ApiErr
  /\ sink.Active = ApiErr

\* C13 as stated: once a push attempt has failed, no postCommand is issued
\* before a new intent arrives; in particular the step that follows the
\* failure issues none.
C13_NoPostAfterFailure ==
  [][lastOp.op = "push_failure" => postsInFlight' <= postsInFlight]_vars

\* C13, amended: the handling of a failed postCommand issues no request and
\* arms no timer, and a postCommand is issued only by the firing of a debounce
\* timer that at least one intent has armed since the timer last fired: a
\* post that follows a failure belongs to such an intent, which may have
\* arrived while the failed post was outstanding.
C13_NoAutomaticRetry ==
  [][/\ lastOp'.op = "push_failure"
          => /\ postsInFlight' = postsInFlight - 1
             /\ debounceTimers' = debounceTimers
     /\ postsInFlight' > postsInFlight
          => /\ lastOp'.op = "debounceFire"
             /\ burst.n >= 1
             /\ postsInFlight' = postsInFlight + 1]_vars

\* a push attempt has failed with no intent waiting: no timer is pending and
\* no postCommand is outstanding
C13_Witness ==
  /\ lastOp.op = "push_failure"
  /\ burst.n = 0
  /\ debounceTimers = 0
  /\ postsInFlight = 0
  /\ sink.RelativeHumidityHumidifierThreshold = ApiErr

\* C14: for every target (mode manual or auto, active or inactive, threshold
\* 0..100) the firing of the debounce timer issues exactly one postCommand:
\* manual and active gives setMode with the threshold in decimal digits (55
\* gives "55"), auto and active gives setMode "auto", inactive gives turnOff
\* "default" whatever the mode and the threshold.
C14_CommandMapper ==
  [][lastOp'.op = "debounceFire" =>
       LET mode == fields.TargetHumidifierDehumidifierState
           active == fields.Active
           threshold == fields.RelativeHumidityHumidifierThreshold
           sent == lastOp'.payload
       IN /\ postsInFlight' = postsInFlight + 1
          /\ sent.commandType = "command"
          /\ (mode = Target_HUMIDIFIER /\ active = Active_ACTIVE)
               => /\ sent.command = "setMode"
                  /\ sent.parameter = NatToString(threshold)
                  /\ threshold = 55 => sent.parameter = "55"
                  /\ threshold = 0 => sent.parameter = "0"
                  /\ threshold = 100 => sent.parameter = "100"
                  /\ threshold = 7 => sent.parameter = "7"
          /\ (mode = Target_HUMIDIFIER_OR_DEHUMIDIFIER /\ active = Active_ACTIVE)
               => /\ sent.command = "setMode"
                  /\ sent.parameter = "auto"
          /\ active = Active_INACTIVE
               => /\ sent.command = "turnOff"
                  /\ sent.parameter = "default"]_vars

\* the target manual, inactive, threshold 55 has been pushed: the one
\* postCommand outstanding is turnOff
C14_Witness ==
  /\ lastOp.op = "debounceFire"
  /\ Target(fields) = <<Target_HUMIDIFIER, Active_INACTIVE, 55>>
  /\ lastOp.payload = [commandType |-> "command", command |-> "turnOff", parameter |-> "default"]
  /\ postsInFlight = 1

\* the On intent that has just run, for the Bot claims
BotIntent(version) == lastOp'.op = "bot_set" /\ bot.version = version

BotCommand(command) ==
  [commandType |-> "command", command |-> command, parameter |-> "default"]

\* C15: in the handleOnSet version with the device id in the switch set, every
\* On intent, in any sequence, issues one postCommand: turnOn for the value
\* true, turnOff for the value false.
C15_SwitchFollowsIntent ==
  [][(BotIntent("handleOnSet") /\ bot.device_switch)
       => /\ lastOp'.payload = BotCommand(IF lastOp'.arg = 1 THEN "turnOn" ELSE "turnOff")
          /\ bot'.postsInFlight = bot.postsInFlight + 1]_vars

\* an intent true has issued turnOn while the post of an earlier intent is
\* still outstanding
C15_Witness ==
  /\ bot.version = "handleOnSet"
  /\ bot.device_switch
  /\ lastOp.op = "bot_set"
  /\ lastOp.arg = 1
  /\ lastOp.payload = BotCommand("turnOn")
  /\ bot.postsInFlight = 2

\* C16: in the inline version with the device id in the switch set, the
\* command an On intent sends is the one for the value of that intent:
\* turnOn for true, turnOff for false.
C16_InlineFollowsIntent ==
  [][(BotIntent("inline") /\ bot.device_switch)
       => lastOp'.payload = BotCommand(IF lastOp'.arg = 1 THEN "turnOn" ELSE "turnOff")]_vars

\* C17: in both versions, with the device id in the press set and not in the
\* switch set, every On intent, true or false, issues one postCommand press.
C17_PressWhateverValue ==
  [][(lastOp'.op = "bot_set" /\ bot.device_press /\ ~bot.device_switch)
       => /\ lastOp'.payload = BotCommand("press")
          /\ bot'.postsInFlight = bot.postsInFlight + 1]_vars

\* the inline version has sent press for an intent true
C17_Witness ==
  /\ bot.version = "inline"
  /\ bot.device_press
  /\ ~bot.device_switch
  /\ lastOp.op = "bot_set"
  /\ lastOp.arg = 1
  /\ lastOp.payload = BotCommand("press")
  /\ bot.postsInFlight = 1

\* C18: in both versions, with the device id in neither set, every On intent
\* makes pushChanges throw its error before axios.post: no command is built
\* and no request is issued.
C18_NeitherSetThrows ==
  [][(lastOp'.op = "bot_set" /\ ~bot.device_press /\ ~bot.device_switch)
       => /\ bot'.mappingError
          /\ lastOp'.payload = NoCommand
          /\ bot'.postsInFlight = bot.postsInFlight]_vars

\* an intent true has run on a Bot configured in neither set: pushChanges has
\* thrown and nothing is outstanding
C18_Witness ==
  /\ bot.version = "handleOnSet"
  /\ ~bot.device_press
  /\ ~bot.device_switch
  /\ lastOp.op = "bot_set"
  /\ lastOp.arg = 1
  /\ bot.mappingError
  /\ bot.postsInFlight = 0

\* C19: parseStatus is idempotent and pure.  The fields a successful poll
\* leaves are those parseStatus gives for the same body from the constructor's
\* placeholders, whatever the fields held before; parsing that body once more
\* changes nothing; and a second successful poll with the same body, directly
\* after the first, leaves the fields as the first left them.
C19_ParserIdempotentPure ==
  [][/\ lastOp'.op = "poll_success"
          => /\ fields' = parseStatus(InitFields, lastOp'.body, hide_temperature)
             /\ parseStatus(fields', lastOp'.body, hide_temperature) = fields'
     /\ (lastOp.op = "poll_success" /\ lastOp'.op = "poll_success"
           /\ lastOp'.body = lastOp.body)
          => fields' = fields]_vars

\* after a set handler had written its field, a body with power on, auto
\* false, nebulizationEfficiency 101 and humidity 55 has been parsed
C19_Witness ==
  /\ lastOp.op = "poll_success"
  /\ lastOp.body = Body(55, "on", "false", 101, 20)
  /\ burst.n >= 1
  /\ Target(fields) = <<Target_HUMIDIFIER, Active_ACTIVE, 100>>
  /\ fields.CurrentHumidifierDehumidifierState = Current_HUMIDIFYING

\* a status body that reports the target (mode, active, threshold): power
\* matches active, the auto flag matches the mode, nebulizationEfficiency is
\* the threshold
ConsistentWith(body, target) ==
  /\ body.auto = (IF target[1] = Target_HUMIDIFIER_OR_DEHUMIDIFIER THEN "true" ELSE "false")
  /\ body.power = (IF target[2] = Active_ACTIVE THEN "on" ELSE "off")
  /\ body.nebulizationEfficiency = target[3]

\* C20: when the postCommand for the current target has just succeeded and
\* the next poll parses a status consistent with that target, Active,
\* TargetHumidifierDehumidifierState and RelativeHumidityHumidifierThreshold
\* still equal the pushed target after the poll.
C20_RoundTrip ==
  [][(/\ lastOp.op = "push_success"
      /\ lastOp.payload = pushChanges(fields)
      /\ lastOp'.op = "poll_success"
      /\ ConsistentWith(lastOp'.body, Target(fields)))
       => Target(fields') = Target(fields)]_vars

\* C21: after every successful poll each parsed field holds a defined value,
\* also when the body lacks humidity, power, auto, nebulizationEfficiency or
\* temperature.
C21_NoUndefinedAfterParse ==
  [][lastOp'.op = "poll_success"
       => \A name \in FieldNames : fields'[name] # Undef]_vars

\* C22: the sink keeps the last known-good values: a failed poll and a failed
\* push leave every value the sink holds as it was.
C22_SinkKeepsLastGood ==
  [][lastOp'.op \in FailedPollOps \cup {"push_failure"} => sink' = sink]_vars

HubOps == {"hub_tick", "hub_poll_success", "hub_poll_throw", "hub_poll_nonSuccess"}

HubFailedPollOps == {"hub_poll_throw", "hub_poll_nonSuccess"}

\* C23: with a Humidifier and a HubMini registered, every step of the HubMini
\* leaves the Humidifier's fields, sink, flag, timer and requests unchanged
\* and every step of the Humidifier leaves the HubMini unchanged; no step
\* closes an interval subscription; and directly after a failure of one
\* device the other's tick still issues its getStatus and the Humidifier's
\* debounce timer still issues its postCommand.
C23_DevicesIndependent ==
  [][/\ lastOp'.op \in HubOps => UNCHANGED humVars
     /\ lastOp'.op \notin HubOps => hub' = hub
     /\ pollLoop'.Humidifier /\ pollLoop'.HubMini
     /\ (lastOp.op \in HubFailedPollOps /\ lastOp'.op = "tick"
           /\ ~humidifierUpdateInProgress)
          => getsInFlight' = getsInFlight + 1
     /\ (lastOp.op \in HubFailedPollOps /\ lastOp'.op = "debounceFire")
          => postsInFlight' = postsInFlight + 1
     /\ (lastOp.op \in FailedPollOps \cup {"push_failure"} /\ lastOp'.op = "hub_tick")
          => hub'.getsInFlight = hub.getsInFlight + 1]_vars

\* a request of the Humidifier has failed since its last intent and its push
\* is outstanding; the HubMini's tick has issued a getStatus all the same
C23_Witness ==
  /\ device = "Humidifier+HubMini"
  /\ lastOp.op = "hub_tick"
  /\ hub.getsInFlight = 1
  /\ ~hub.skipping
  /\ sink.Active = ApiErr
  /\ humidifierUpdateInProgress
  /\ postsInFlight = 1

C25_CurrentStateOrder ==
  [][lastOp'.op = "poll_success" =>
       LET body == lastOp'.body
           humidity == fields'.CurrentRelativeHumidity
           threshold == fields'.RelativeHumidityHumidifierThreshold
           current == fields'.CurrentHumidifierDehumidifierState
       IN /\ humidity = body.humidity
          /\ body.auto # "true"
               => /\ current = IF JsGreater(humidity, threshold) THEN Current_IDLE
                               ELSE IF body.power # "on" THEN Current_INACTIVE
                               ELSE Current_HUMIDIFYING
                  /\ humidity = threshold => current # Current_IDLE
          /\ body.auto = "true"
               => /\ current = Current_HUMIDIFYING
                  /\ threshold = humidity]_vars

\* a manual-mode body with power off and a humidity above the threshold has
\* been parsed: the humidity check came first, the state is IDLE
C25_Witness ==
  /\ lastOp.op = "poll_success"
  /\ lastOp.body.auto = "false"
  /\ lastOp.body.power = "off"
  /\ lastOp.body.humidity = 101
  /\ fields.RelativeHumidityHumidifierThreshold = 55
  /\ fields.Active = Active_INACTIVE
  /\ fields.CurrentHumidifierDehumidifierState = Current_IDLE

\* C26: in every reachable state, if a debounce timer is pending or a
\* postCommand is in flight then humidifierUpdateInProgress is true.
C26_FlagCoversPendingWrites ==
  (debounceTimers > 0 \/ postsInFlight > 0) => humidifierUpdateInProgress

\* C27: a threshold intent received while Active is INACTIVE sets Active to
\* ACTIVE and the current state to IDLE and reports both to the sink; received
\* while ACTIVE it leaves Active and the current state as they are; when the
\* debounce timer fires in the step after a threshold intent, a postCommand
\* is issued and it is a setMode command, not turnOff.
C27_ThresholdIntentTurnsOn ==
  [][/\ lastOp'.op = "handleRelativeHumidityHumidifierThresholdSet"
          => /\ fields.Active = Active_INACTIVE
                  => /\ fields'.Active = Active_ACTIVE
                     /\ fields'.CurrentHumidifierDehumidifierState = Current_IDLE
                     /\ sink'.Active = Active_ACTIVE
                     /\ sink'.CurrentHumidifierDehumidifierState = Current_IDLE
             /\ fields.Active = Active_ACTIVE
                  => /\ fields'.Active = fields.Active
                     /\ fields'.CurrentHumidifierDehumidifierState =
                          fields.CurrentHumidifierDehumidifierState
     /\ (lastOp.op = "handleRelativeHumidityHumidifierThresholdSet"
           /\ lastOp'.op = "debounceFire")
          => /\ postsInFlight' = postsInFlight + 1
             /\ lastOp'.payload.command = "setMode"
             /\ lastOp'.payload.parameter \in
                  {"auto", TemplateString(fields.RelativeHumidityHumidifierThreshold)}]_vars

\* before the constructor's getStatus was answered a threshold intent arrived
\* while Active was INACTIVE (nothing else makes the current state IDLE
\* then), and the timer has fired: setMode is posted
C27_Witness ==
  /\ lastOp.op = "debounceFire"
  /\ lastOp.payload.command = "setMode"
  /\ getsInFlight = 1
  /\ ~pollFailed
  /\ fields.Active = Active_ACTIVE
  /\ fields.CurrentHumidifierDehumidifierState = Current_IDLE
  /\ sink.CurrentHumidifierDehumidifierState = Current_IDLE
  /\ postsInFlight = 1

\* C28: after every successful parse, if Active is INACTIVE then the current
\* state is not HUMIDIFYING.
C28_InactiveNeverHumidifying ==
  [][lastOp'.op = "poll_success"
       => (fields'.Active = Active_INACTIVE
             => fields'.CurrentHumidifierDehumidifierState # Current_HUMIDIFYING)]_vars

\* C29: in the handleOnSet version no invocation of handleOnSet ends without
\* having invoked the host callback, also when pushChanges throws the mapping
\* error or the postCommand request fails.
C29_CallbackAlwaysInvoked ==
  bot.version = "handleOnSet" => ~bot.callbackLost

\* C30: the postCommand requests of a Bot are serialized: the postCommand of a
\* second On intent is not issued before the first one has completed, so at
\* most one is outstanding.
C30_PostsSerialized ==
  bot.postsInFlight <= 1

\* C31: in the handleOnSet version, after a successful push in press mode
\* (device id in the press set only) On is false and false is reported to the
\* sink; in switch mode the value reported after a successful push is the
\* value that the intent of that push requested.
C31_ReportedAfterPush ==
  [][(lastOp'.op = "bot_push_success" /\ bot.version = "handleOnSet")
       => /\ (bot.device_press /\ ~bot.device_switch)
               => bot'.On = "false" /\ bot'.sinkOn = "false"
          /\ bot.device_switch
               => OnArg(bot'.sinkOn) = lastOp'.arg]_vars

\* C32: with the device id in both the switch set and the press set, every
\* push sends turnOn when On is true and turnOff otherwise, and never press.
\* On is what pushChanges reads: the value of the intent in the handleOnSet
\* version, the value before the intent in the inline version.
C32_SwitchTakesPrecedence ==
  [][(lastOp'.op = "bot_set" /\ bot.device_switch /\ bot.device_press)
       => LET on == IF bot.version = "inline" THEN bot.On
                    ELSE IF lastOp'.arg = 1 THEN "true" ELSE "false"
          IN /\ lastOp'.payload.command = IF on = "true" THEN "turnOn" ELSE "turnOff"
             /\ lastOp'.payload.command # "press"
             /\ bot'.postsInFlight = bot.postsInFlight + 1]_vars

\* a Bot in both sets has sent turnOn for an intent true and then turnOff for
\* an intent false
C32_Witness ==
  /\ bot.version = "handleOnSet"
  /\ bot.device_switch
  /\ bot.device_press
  /\ lastOp.op = "bot_set"
  /\ lastOp.payload = BotCommand("turnOff")
  /\ bot.requested = <<1, 0>>

\* C33: a HubMini poll that fails (the request throws or the message is not
\* 'success') leaves Reachable, LinkQuality and Category unchanged and sends
\* nothing to the sink; Reachable goes from true to false only in a poll
\* whose message is 'success' and whose statusCode is not 100.
C33_FailedHubPollKeepsFields ==
  [][/\ lastOp'.op \in HubFailedPollOps
          => /\ hub'.Reachable = hub.Reachable
             /\ hub'.LinkQuality = hub.LinkQuality
             /\ hub'.Category = hub.Category
             /\ hub'.sink = hub.sink
     /\ (hub.Reachable /\ ~hub'.Reachable)
          => lastOp'.op = "hub_poll_success" /\ lastOp'.arg # 100]_vars

\* after a tick, a poll answered with message 'error' and statusCode 190 has
\* ended, an earlier poll has failed as well, and the hub is still reachable
C33_Witness ==
  /\ lastOp.op = "hub_poll_nonSuccess"
  /\ lastOp.arg = 190
  /\ ~hub.skipping
  /\ hub.getsInFlight = 0
  /\ hub.Reachable
  /\ hub.sink.Reachable
  /\ hub.LinkQuality = 4

\* C34: nothing emits on doHubUpdate or doTVUpdate: hubUpdateInProgress and
\* tvUpdateInProgress are false in every state, every poll tick of the
\* HubMini and of the TV issues its getStatus, and the TV has no postCommand
\* outstanding.
C34_UpdateSubjectsSilent ==
  [][/\ ~hub.hubUpdateInProgress /\ ~hub'.hubUpdateInProgress
     /\ ~tv.tvUpdateInProgress /\ ~tv'.tvUpdateInProgress
     /\ tv.postsInFlight = 0 /\ tv'.postsInFlight = 0
     /\ lastOp'.op = "hub_tick" => hub'.getsInFlight = hub.getsInFlight + 1
     /\ lastOp'.op = "tv_tick" => tv'.getsInFlight = tv.getsInFlight + 1]_vars

\* after a SET handler of the TV and a failed poll of the hub, a tick of the
\* TV has issued a second getStatus
C34_Witness ==
  /\ device = "HubMini+TV"
  /\ lastOp.op = "tv_tick"
  /\ tv.getsInFlight = 2
  /\ ~tv.skipping
  /\ ~tv.tvUpdateInProgress
  /\ pollFailed
  /\ hub.getsInFlight = 0

====
